---- MODULE Spec2Model ----
(***************************************************************************)
(* The REST adapter of the to-do service: the task handler (create, task,  *)
(* update), the error renderer and the response renderer.                  *)
(*                                                                         *)
(* A request is handled in a slot r.  A handler runs from its entry to its *)
(* call of the service collaborator in one step (decode, early return on a *)
(* decode error, defer of Body.Close, the call), blocks in the call, and   *)
(* runs from the call's return to its own return in a second step (the     *)
(* rendering and the deferred Body.Close).  Handlers of different slots    *)
(* interleave at the blocking call.                                        *)
(*                                                                         *)
(* What a handler hands to the http.ResponseWriter is recorded as it is    *)
(* handed over: header[r] is the sequence of WriteHeader calls, written[r] *)
(* the sequence of Write calls (JSON text).                                *)
(***************************************************************************)
EXTENDS Naturals, Sequences, FiniteSets, TLC

\* ------------------------------------------------------------------ bounds

\* Requests handled concurrently.
MaxInFlight == 2
\* Longest chain of wrapped errors handed to the error renderer.
MaxChain == 2

\* --------------------------------------------------------- program constants

StatusOK == 200
StatusCreated == 201
StatusBadRequest == 400
StatusNotFound == 404
StatusInternalServerError == 500

\* internal.ErrorCode: the classification an *internal.Error carries.
ErrorCodeUnknown == 0
ErrorCodeNotFound == 1
ErrorCodeInvalidArgument == 2
\* A code outside the three named ones (the switch's default case).
ErrorCodeOther == 7

ErrorCodes == {ErrorCodeUnknown, ErrorCodeNotFound, ErrorCodeInvalidArgument, ErrorCodeOther}

\* ------------------------------------------------------------------ errors

(***************************************************************************)
(* A Go error value is the chain errors.Unwrap walks, outermost first; the *)
(* nil error is the empty chain.  A layer is an *internal.Error (a code, a *)
(* message), a validation.Errors (field failures, as field/message pairs   *)
(* in key order; a map, so it wraps nothing and ends its chain), or any    *)
(* other error (a message).                                                *)
(***************************************************************************)
InternalError(code, msg) ==
    [type |-> "internal.Error", code |-> code, msg |-> msg, fields |-> <<>>]

ValidationErrors(fields) ==
    [type |-> "validation.Errors", code |-> ErrorCodeUnknown, msg |-> "validation", fields |-> fields]

PlainError(msg) ==
    [type |-> "error", code |-> ErrorCodeUnknown, msg |-> msg, fields |-> <<>>]

DescriptionRequired == << <<"description", "required">> >>

ValidationLayers == {ValidationErrors(<<>>), ValidationErrors(DescriptionRequired)}

WrappingLayers ==
    {InternalError(c, "task repository failed") : c \in ErrorCodes}
        \cup {PlainError("sql: connection refused")}

Layers == WrappingLayers \cup ValidationLayers

nil == <<>>

\* Error values: chains of at most MaxChain layers, a validation.Errors last.
Errors ==
    UNION {{e \in [1..n -> Layers] :
                \A i \in 1..n : i < n => e[i] \in WrappingLayers} : n \in 0..MaxChain}

\* The messages of an error's layers: what err.Error() is made of.
ErrorTexts(err) == {err[i].msg : i \in 1..Len(err)}

Min(S) == CHOOSE x \in S : \A y \in S : x <= y

\* errors.As(err, &target): the position of the first layer of the chain, from
\* position `from` on, whose type is `type`; 0 when there is none.
As(err, from, type) ==
    LET hits == {i \in from..Len(err) : err[i].type = type}
    IN  IF hits = {} THEN 0 ELSE Min(hits)

\* ------------------------------------------------------------ JSON encoding

Quote(s) == "\"" \o s \o "\""

\* A validation.Errors as a JSON object, keys in order.
RECURSIVE MarshalFields(_)
MarshalFields(fields) ==
    IF Len(fields) = 0 THEN ""
    ELSE Quote(fields[1][1]) \o ":" \o Quote(fields[1][2])
            \o (IF Len(fields) > 1 THEN "," ELSE "")
            \o MarshalFields(Tail(fields))

\* ------------------------------------------------------- wire/domain types

\* internal.Priority.
PriorityNone == "PriorityNone"
PriorityLow == "PriorityLow"
PriorityMedium == "PriorityMedium"
PriorityHigh == "PriorityHigh"

\* Instants (time.Time).  TimeZero is the zero time; TimeFar stands for an
\* instant whose wire form json.Marshal rejects.
TimeZero == "time.Time{}"
TimeA == "instant A"
TimeB == "instant B"
TimeFar == "instant without JSON text"

\* Priority.Convert: wire priority to internal.Priority.
Convert(p) ==
    CASE p = "low" -> PriorityLow
      [] p = "medium" -> PriorityMedium
      [] p = "high" -> PriorityHigh
      [] OTHER -> PriorityNone

\* NewPriority: internal.Priority to wire priority.
NewPriority(p) ==
    CASE p = PriorityLow -> "low"
      [] p = PriorityMedium -> "medium"
      [] p = PriorityHigh -> "high"
      [] OTHER -> "none"

\* The RFC 3339 text of an instant.
TimeText(t) ==
    CASE t = TimeA -> "2026-01-02T03:04:05Z"
      [] t = TimeB -> "2026-02-03T04:05:06Z"
      [] OTHER -> "0001-01-01T00:00:00Z"

\* The instant an RFC 3339 text denotes.
ParseTime(s) ==
    CASE s = "2026-01-02T03:04:05Z" -> TimeA
      [] s = "2026-02-03T04:05:06Z" -> TimeB
      [] OTHER -> TimeZero

\* Dates.Convert: wire dates (a start/due pair) to internal.Dates.
ConvertDates(d) == [Start |-> d[1], Due |-> d[2]]

\* NewDates: internal.Dates to wire dates.
NewDates(d) == <<d.Start, d.Due>>

\* rest.Task built from an internal.Task, as create and task build it.
WireTask(task) ==
    [ID |-> task.ID, Description |-> task.Description,
     Priority |-> NewPriority(task.Priority), Dates |-> NewDates(task.Dates)]

MarshalTask(t) ==
    "{\"id\":" \o Quote(t.ID)
        \o ",\"description\":" \o Quote(t.Description)
        \o ",\"priority\":" \o Quote(t.Priority)
        \o ",\"dates\":{\"start\":" \o Quote(TimeText(t.Dates[1]))
        \o ",\"due\":" \o Quote(TimeText(t.Dates[2])) \o "}}"

\* json.Marshal(res): the JSON text of a response value, or an error.
Marshal(res) ==
    CASE res.go = "struct{}" -> [err |-> FALSE, content |-> "{}"]
      [] res.go = "ErrorResponse" ->
            [err |-> FALSE,
             content |-> "{\"error\":" \o Quote(res.Error)
                 \o (IF Len(res.Validations) > 0
                     THEN ",\"validations\":{" \o MarshalFields(res.Validations) \o "}"
                     ELSE "")
                 \o "}"]
      [] OTHER ->
            IF TimeFar \in {res.Task.Dates[1], res.Task.Dates[2]}
            THEN [err |-> TRUE, content |-> ""]
            ELSE [err |-> FALSE, content |-> "{\"task\":" \o MarshalTask(res.Task) \o "}"]

\* --------------------------------------------------------------- renderers

ErrorResponse(msg, validations) ==
    [go |-> "ErrorResponse", Error |-> msg, Validations |-> validations]

\* renderResponse with the early return of the marshal-error branch left out.
renderResponse_noReturn(res, status) ==
    LET m == Marshal(res)
    IN  IF m.err
        THEN [header |-> <<StatusInternalServerError, status>>, written |-> <<m.content>>]
        ELSE [header |-> <<status>>, written |-> <<m.content>>]

\* renderResponse(w, res, status): the WriteHeader and Write calls it makes.
renderResponse(res, status) ==
    LET m == Marshal(res)
    IN  IF m.err
        THEN [header |-> <<StatusInternalServerError>>, written |-> <<>>]
        ELSE [header |-> <<status>>, written |-> <<m.content>>]

\* The error text with the override for an unclassified error left out.
errorText_noOverride(msg, err) == msg

\* resp.Error: the caller's message, overridden when errors.As finds no
\* *internal.Error in the chain.
errorText(msg, err) ==
    IF As(err, 1, "internal.Error") = 0 THEN "internal error" ELSE msg

\* The status with the not-found case left out of the switch.
statusOf_noNotFound(err) ==
    LET i == As(err, 1, "internal.Error")
    IN  IF i # 0 /\ err[i].code = ErrorCodeInvalidArgument
        THEN StatusBadRequest
        ELSE StatusInternalServerError

\* status: 500 unless the chain holds an *internal.Error, and then by its code.
statusOf(err) ==
    LET i == As(err, 1, "internal.Error")
    IN  IF i = 0 THEN StatusInternalServerError
        ELSE CASE err[i].code = ErrorCodeNotFound -> StatusNotFound
               [] err[i].code = ErrorCodeInvalidArgument -> StatusBadRequest
               [] OTHER -> StatusInternalServerError

\* The validations attached whatever the code of the *internal.Error is.
validationsOf_anyCode(err) ==
    LET i == As(err, 1, "internal.Error")
        v == IF i = 0 THEN 0 ELSE As(err, i, "validation.Errors")
    IN  IF v = 0 THEN <<>> ELSE err[v].fields

\* resp.Validations: the validation.Errors found from the *internal.Error on,
\* in the invalid-argument case only.
validationsOf(err) ==
    LET i == As(err, 1, "internal.Error")
        v == IF i = 0 THEN 0 ELSE As(err, i, "validation.Errors")
    IN  IF i # 0 /\ err[i].code = ErrorCodeInvalidArgument /\ v # 0
        THEN err[v].fields
        ELSE <<>>

\* renderErrorResponse(ctx, w, msg, err): what it writes, what it attached, and
\* whether it recorded the error against the span.
renderErrorResponse(msg, err) ==
    LET resp == ErrorResponse(errorText(msg, err), validationsOf(err))
        out == renderResponse(resp, statusOf(err))
    IN  [header |-> out.header, written |-> out.written,
         resp |-> resp, recorded |-> err # nil]

\* renderErrorResponse(w, msg, status) as the handlers call it: the message
\* and the status of the call site, rendered.
renderErrorResponseStatus(msg, status) ==
    renderResponse(ErrorResponse(msg, <<>>), status)

\* ---------------------------------------------------------------- requests

Slots == 1..MaxInFlight

\* The id path segments the router lets through (Register: uuidRegEx).
IDs == {"6f1b0c7e-5d4a-4c3b-9a2e-0123456789ab"}

\* A request body: text that is not JSON, or a JSON document.
BadJSON ==
    [syntax |-> "invalid", description |-> "", priority |-> "",
     dates |-> <<"", "">>, is_done |-> FALSE]

Doc(description, priority, start, due, isDone) ==
    [syntax |-> "json", description |-> description, priority |-> priority,
     dates |-> <<start, due>>, is_done |-> isDone]

Bodies ==
    {BadJSON,
     Doc("write the report", "low", "2026-01-02T03:04:05Z", "2026-02-03T04:05:06Z", FALSE),
     Doc("file the taxes", "high", "", "", TRUE)}

NoBody == Doc("", "", "", "", FALSE)

\* The zero value of a request struct.
ZeroRequest ==
    [Description |-> "", Priority |-> "", Dates |-> <<TimeZero, TimeZero>>, IsDone |-> FALSE]

\* json.NewDecoder(r.Body).Decode(&req), into a CreateTasksRequest (k = "create",
\* no is_done field) or an UpdateTasksRequest (k = "update").
Decode(b, k) ==
    IF b.syntax # "json"
    THEN [err |-> TRUE, req |-> ZeroRequest]
    ELSE [err |-> FALSE,
          req |-> [Description |-> b.description,
                   Priority |-> b.priority,
                   Dates |-> <<ParseTime(b.dates[1]), ParseTime(b.dates[2])>>,
                   IsDone |-> IF k = "update" THEN b.is_done ELSE FALSE]]

\* ---------------------------------------------------- service collaborator

ZeroDates == [Start |-> TimeZero, Due |-> TimeZero]

\* The zero value of internal.Task.
ZeroTask ==
    [ID |-> "", Description |-> "", Priority |-> PriorityNone, Dates |-> ZeroDates]

\* Tasks the service may hand back: what it was given, something else, and a
\* task whose dates do not serialize.
Tasks ==
    {[ID |-> "abc-123", Description |-> "write the report", Priority |-> PriorityLow,
      Dates |-> [Start |-> TimeA, Due |-> TimeB]],
     [ID |-> "abc-123", Description |-> "WRITE THE REPORT", Priority |-> PriorityMedium,
      Dates |-> ZeroDates],
     [ID |-> "abc-123", Description |-> "file the taxes", Priority |-> PriorityHigh,
      Dates |-> [Start |-> TimeFar, Due |-> TimeZero]]}

NotFoundError == <<InternalError(ErrorCodeNotFound, "task repository failed")>>

InvalidArgumentError ==
    <<InternalError(ErrorCodeInvalidArgument, "task repository failed"),
      ValidationErrors(DescriptionRequired)>>

OpaqueError == <<PlainError("sql: connection refused")>>

\* Errors the service may return (never nil here).
SvcErrors == {NotFoundError, InvalidArgumentError, OpaqueError}

\* What a call of the service returned: (task, err); the zero values before.
NoResult == [task |-> ZeroTask, err |-> nil]

TaskResults == {[task |-> t, err |-> nil] : t \in Tasks}
                   \cup {[task |-> ZeroTask, err |-> e] : e \in SvcErrors}

UpdateResults == {NoResult} \cup {[task |-> ZeroTask, err |-> e] : e \in SvcErrors}

Invocation(op, id, description, priority, dates, isDone) ==
    [op |-> op, id |-> id, description |-> description, priority |-> priority,
     dates |-> dates, isDone |-> isDone]

\* -------------------------------------------------------------------- state

VARIABLES
    svc,         \* TaskHandler.svc
    pc,          \* where the handler of each slot is
    kind,        \* the handler the router dispatched the request to
    body,        \* r.Body
    id,          \* mux.Vars(r)["id"]
    req,         \* the handler's local req
    deferred,    \* whether defer r.Body.Close() was reached
    bodyClosed,  \* whether r.Body.Close() ran
    calls,       \* the invocations of the service made for the request
    svcRet,      \* the handler's locals task, err
    header,      \* the WriteHeader calls on w
    written,     \* the Write calls on w
    rpc, rmsg, rerr, rout   \* one call of renderErrorResponse(ctx, w, msg, err)

handlerVars ==
    <<svc, pc, kind, body, id, req, deferred, bodyClosed, calls, svcRet, header, written>>

renderVars == <<rpc, rmsg, rerr, rout>>

vars == <<handlerVars, renderVars>>

NoOutput ==
    [header |-> <<>>, written |-> <<>>, resp |-> ErrorResponse("", <<>>), recorded |-> FALSE]

\* NewTaskHandler(svc), and no request dispatched yet.
InitHandler ==
    /\ svc = "TaskService"
    /\ pc = [r \in Slots |-> "idle"]
    /\ kind = [r \in Slots |-> "none"]
    /\ body = [r \in Slots |-> NoBody]
    /\ id = [r \in Slots |-> ""]
    /\ req = [r \in Slots |-> ZeroRequest]
    /\ deferred = [r \in Slots |-> FALSE]
    /\ bodyClosed = [r \in Slots |-> FALSE]
    /\ calls = [r \in Slots |-> <<>>]
    /\ svcRet = [r \in Slots |-> NoResult]
    /\ header = [r \in Slots |-> <<>>]
    /\ written = [r \in Slots |-> <<>>]

Init ==
    /\ InitHandler
    /\ rpc = "off"
    /\ rmsg = ""
    /\ rerr = nil
    /\ rout = NoOutput

\* ----------------------------------------------------------------- handlers

\* The handler writes what a renderer produced to its ResponseWriter.
Respond(r, out) ==
    /\ header' = [header EXCEPT ![r] = @ \o out.header]
    /\ written' = [written EXCEPT ![r] = @ \o out.written]

\* The handler returns: its deferred calls run.
Return(r) ==
    /\ pc' = [pc EXCEPT ![r] = "done"]
    /\ bodyClosed' = [bodyClosed EXCEPT ![r] = deferred'[r]]

\* The locals task, err of every handler held in one place (here: slot 1's).
resultOf_shared(r) == svcRet[1]

\* The handler's locals task, err.
resultOf(r) == svcRet[r]

\* create answering a decode error with the wrong status.
createDecodeError_500 ==
    renderErrorResponseStatus("invalid request", StatusInternalServerError)

createDecodeError == renderErrorResponseStatus("invalid request", StatusBadRequest)

createServiceError == renderErrorResponseStatus("create failed", StatusInternalServerError)

taskServiceError == renderErrorResponseStatus("find failed", StatusInternalServerError)

updateDecodeError == renderErrorResponseStatus("invalid request", StatusBadRequest)

updateServiceError == renderErrorResponseStatus("update failed", StatusInternalServerError)

\* update answering success with create's status.
updateSuccess_created == renderResponse([go |-> "struct{}"], StatusCreated)

\* update's response to a successful Update: &struct{}{}.
updateSuccess == renderResponse([go |-> "struct{}"], StatusOK)

\* The created task answered with its ID and description swapped.
createSuccess_swapped(task) ==
    renderResponse([go |-> "CreateTasksResponse",
                    Task |-> [WireTask(task) EXCEPT !.ID = task.Description,
                                                    !.Description = task.ID]],
                   StatusCreated)

\* create's response to a successful Create.
createSuccess(task) ==
    renderResponse([go |-> "CreateTasksResponse", Task |-> WireTask(task)], StatusCreated)

\* task's response to a successful Task.
taskSuccess(task) ==
    renderResponse([go |-> "ReadTasksResponse", Task |-> WireTask(task)], StatusOK)

\* POST /tasks, to the call of svc.Create.
create(r) ==
    /\ pc[r] = "idle"
    /\ \E b \in Bodies :
        LET d == Decode(b, "create")
        IN  /\ kind' = [kind EXCEPT ![r] = "create"]
            /\ body' = [body EXCEPT ![r] = b]
            /\ IF d.err
               THEN /\ Respond(r, createDecodeError)
                    /\ UNCHANGED <<req, deferred, calls>>
                    /\ Return(r)
               ELSE /\ req' = [req EXCEPT ![r] = d.req]
                    /\ deferred' = [deferred EXCEPT ![r] = TRUE]
                    /\ calls' = [calls EXCEPT ![r] = Append(@,
                           Invocation("Create", "", d.req.Description,
                                      Convert(d.req.Priority), ConvertDates(d.req.Dates),
                                      FALSE))]
                    /\ pc' = [pc EXCEPT ![r] = "Create"]
                    /\ UNCHANGED <<header, written, bodyClosed>>
    /\ UNCHANGED <<svc, id, svcRet, renderVars>>

\* svc.Create returns, to the return of create.
createReturn(r) ==
    /\ pc[r] = "Create"
    /\ \E ret \in TaskResults :
        /\ svcRet' = [svcRet EXCEPT ![r] = ret]
        /\ LET res == resultOf(r)'
           IN  IF res.err # nil
               THEN Respond(r, createServiceError)
               ELSE Respond(r, createSuccess(res.task))
    /\ UNCHANGED deferred
    /\ Return(r)
    /\ UNCHANGED <<svc, kind, body, id, req, calls, renderVars>>

\* GET /tasks/{id}, to the call of svc.Task.
task(r) ==
    /\ pc[r] = "idle"
    /\ \E i \in IDs :
        /\ id' = [id EXCEPT ![r] = i]
        /\ calls' = [calls EXCEPT ![r] = Append(@,
               Invocation("Task", i, "", PriorityNone, ZeroDates, FALSE))]
    /\ kind' = [kind EXCEPT ![r] = "task"]
    /\ pc' = [pc EXCEPT ![r] = "Task"]
    /\ UNCHANGED <<svc, body, req, deferred, bodyClosed, svcRet, header, written, renderVars>>

\* svc.Task returns, to the return of task.
taskReturn(r) ==
    /\ pc[r] = "Task"
    /\ \E ret \in TaskResults :
        /\ svcRet' = [svcRet EXCEPT ![r] = ret]
        /\ LET res == resultOf(r)'
           IN  IF res.err # nil
               THEN Respond(r, taskServiceError)
               ELSE Respond(r, taskSuccess(res.task))
    /\ UNCHANGED deferred
    /\ Return(r)
    /\ UNCHANGED <<svc, kind, body, id, req, calls, renderVars>>

\* PUT /tasks/{id}, to the call of svc.Update.
update(r) ==
    /\ pc[r] = "idle"
    /\ \E b \in Bodies, i \in IDs :
        LET d == Decode(b, "update")
        IN  /\ kind' = [kind EXCEPT ![r] = "update"]
            /\ body' = [body EXCEPT ![r] = b]
            /\ IF d.err
               THEN /\ Respond(r, updateDecodeError)
                    /\ UNCHANGED <<req, deferred, calls, id>>
                    /\ Return(r)
               ELSE /\ req' = [req EXCEPT ![r] = d.req]
                    /\ deferred' = [deferred EXCEPT ![r] = TRUE]
                    /\ id' = [id EXCEPT ![r] = i]
                    /\ calls' = [calls EXCEPT ![r] = Append(@,
                           Invocation("Update", i, d.req.Description,
                                      Convert(d.req.Priority), ConvertDates(d.req.Dates),
                                      d.req.IsDone))]
                    /\ pc' = [pc EXCEPT ![r] = "Update"]
                    /\ UNCHANGED <<header, written, bodyClosed>>
    /\ UNCHANGED <<svc, svcRet, renderVars>>

\* svc.Update returns, to the return of update.
updateReturn(r) ==
    /\ pc[r] = "Update"
    /\ \E ret \in UpdateResults :
        /\ svcRet' = [svcRet EXCEPT ![r] = ret]
        /\ LET res == resultOf(r)'
           IN  IF res.err # nil
               THEN Respond(r, updateServiceError)
               ELSE Respond(r, updateSuccess)
    /\ UNCHANGED deferred
    /\ Return(r)
    /\ UNCHANGED <<svc, kind, body, id, req, calls, renderVars>>

Next ==
    \E r \in Slots :
        \/ create(r)
        \/ createReturn(r)
        \/ task(r)
        \/ taskReturn(r)
        \/ update(r)
        \/ updateReturn(r)

Spec == Init /\ [][Next]_vars

\* ------------------------------------------- the error renderer on its own

\* The messages of the call sites.
Messages == {"invalid request", "create failed", "find failed", "update failed"}

InitRender ==
    /\ InitHandler
    /\ rpc = "call"
    /\ rmsg \in Messages
    /\ rerr \in Errors
    /\ rout = NoOutput

\* renderErrorResponse(ctx, w, rmsg, rerr).
RenderError ==
    /\ rpc = "call"
    /\ rout' = renderErrorResponse(rmsg, rerr)
    /\ rpc' = "done"
    /\ UNCHANGED <<rmsg, rerr, handlerVars>>

NextRender == RenderError

SpecRender == InitRender /\ [][NextRender]_vars

\* ============================================================== properties

Done(r) == pc[r] = "done"

Decoding(r) == kind[r] \in {"create", "update"}

\* The JSON text of an error body that has no validations.
ErrorJSON(text) == "{\"error\":\"" \o text \o "\"}"

\* The domain classification of an error: the code of the outermost
\* *internal.Error of its chain, "unclassified" when it holds none.
RECURSIVE Classification(_)
Classification(err) ==
    IF err = <<>> THEN "unclassified"
    ELSE IF Head(err).type = "internal.Error"
         THEN IF Head(err).code = ErrorCodeNotFound THEN "not-found"
              ELSE IF Head(err).code = ErrorCodeInvalidArgument THEN "invalid-argument"
              ELSE "unknown"
         ELSE Classification(Tail(err))

\* The field-level validation failures an error carries.
RECURSIVE Failures(_)
Failures(err) ==
    IF err = <<>> THEN <<>>
    ELSE IF Head(err).type = "validation.Errors" THEN Head(err).fields
         ELSE Failures(Tail(err))

Rendered == rpc = "done"

C2_BodyClosedOnEveryExit ==
    \A r \in Slots : (Done(r) /\ Decoding(r)) => bodyClosed[r]

\* ----------------------------------------------------------------------- C3
\* C3: the status the error renderer writes is decided by the error's
\* classification alone, whatever the message: 404 for not-found, 400 for
\* invalid-argument, 500 for unknown or any other code and for an error
\* without classification (nil included).
C3_StatusByClassification ==
    Rendered =>
        rout.header =
            << CASE Classification(rerr) = "not-found" -> 404
                 [] Classification(rerr) = "invalid-argument" -> 400
                 [] OTHER -> 500 >>

C3_Witness ==
    /\ Rendered
    /\ Len(rerr) = 2
    /\ rerr[1].type = "error"
    /\ Classification(rerr) = "not-found"
    /\ rout.header = <<404>>

\* ----------------------------------------------------------------------- C4
\* C4: the error text of an error response is the caller's message, or
\* "internal error" exactly when the error has no classification; it is never
\* a message of the error itself.
C4_ErrorTextGeneric ==
    Rendered =>
        /\ rout.resp.Error \in {rmsg, "internal error"}
        /\ (rout.resp.Error = "internal error") <=> (Classification(rerr) = "unclassified")
        /\ rout.resp.Error \notin ErrorTexts(rerr)
        /\ rout.resp.Validations = <<>> => rout.written = <<ErrorJSON(rout.resp.Error)>>

C4_Witness ==
    /\ Rendered
    /\ rerr = OpaqueError
    /\ rmsg = "find failed"
    /\ rout.written = <<"{\"error\":\"internal error\"}">>

\* ----------------------------------------------------------------------- C5
\* C5: an error response has a validations mapping if and only if the error is
\* classified invalid-argument and carries field-level validation failures;
\* then the status is 400 and the mapping is the error's failures.
C5_ValidationsOnlyForInvalidArgument ==
    Rendered =>
        LET attached == rout.written # <<ErrorJSON(rout.resp.Error)>>
            carried == Classification(rerr) = "invalid-argument" /\ Failures(rerr) # <<>>
        IN  /\ attached <=> carried
            /\ attached <=> (rout.resp.Validations # <<>>)
            /\ carried =>
                /\ rout.header = <<400>>
                /\ rout.resp.Validations = Failures(rerr)

C5_Witness ==
    /\ Rendered
    /\ rerr = InvalidArgumentError
    /\ rmsg = "create failed"
    /\ rout.header = <<400>>
    /\ rout.written =
        <<"{\"error\":\"create failed\",\"validations\":{\"description\":\"required\"}}">>

\* ----------------------------------------------------------------------- C6
\* C6: when the service's fetch returns an error classified not-found, task
\* answers with status 404 and the error text "internal error" or "find
\* failed".
C6_NotFoundIs404 ==
    \A r \in Slots :
        (Done(r) /\ kind[r] = "task" /\ Classification(svcRet[r].err) = "not-found") =>
            /\ header[r] = <<404>>
            /\ written[r] \in {<<ErrorJSON("internal error")>>, <<ErrorJSON("find failed")>>}

\* ----------------------------------------------------------------------- C7
CreateSucceeded(r) ==
    /\ Done(r)
    /\ kind[r] = "create"
    /\ body[r].syntax = "json"
    /\ svcRet[r].err = <<>>

\* The JSON text of a task response.
TaskJSON(taskID, description, priority, dates) ==
    "{\"task\":{\"id\":\"" \o taskID
        \o "\",\"description\":\"" \o description
        \o "\",\"priority\":\"" \o priority
        \o "\",\"dates\":{\"start\":\"" \o TimeText(dates[1])
        \o "\",\"due\":\"" \o TimeText(dates[2]) \o "\"}}}"

\* C7 as stated: a create that decoded and whose Create succeeded is answered
\* with status 201 and a task that mirrors the request's description, priority
\* and dates, with the ID the service returned.
C7_MirrorsRequest ==
    \A r \in Slots :
        CreateSucceeded(r) =>
            /\ header[r] = <<201>>
            /\ written[r] = <<TaskJSON(svcRet[r].task.ID, req[r].Description,
                                       req[r].Priority, req[r].Dates)>>

\* C7 as amended: a create that decoded and whose Create succeeded is answered
\* with status 201 and the ID, description, priority and dates of the task the
\* service returned; when that task does not serialize, with status 500 and no
\* body.
C7_MirrorsReturnedTask ==
    \A r \in Slots :
        CreateSucceeded(r) =>
            LET t == svcRet[r].task
            IN  IF TimeFar \in {t.Dates.Start, t.Dates.Due}
                THEN header[r] = <<500>> /\ written[r] = <<>>
                ELSE /\ header[r] = <<201>>
                     /\ written[r] = <<TaskJSON(t.ID, t.Description, NewPriority(t.Priority),
                                                <<t.Dates.Start, t.Dates.Due>>)>>

C7_Witness ==
    \E r \in Slots :
        /\ CreateSucceeded(r)
        /\ req[r].Description = "write the report"
        /\ req[r].Priority = "low"
        /\ header[r] = <<201>>
        /\ written[r] =
            <<"{\"task\":{\"id\":\"abc-123\",\"description\":\"WRITE THE REPORT\",\"priority\":\"medium\",\"dates\":{\"start\":\"0001-01-01T00:00:00Z\",\"due\":\"0001-01-01T00:00:00Z\"}}}">>

\* ----------------------------------------------------------------------- C8
\* C8: an update that decoded and whose Update succeeded is answered with
\* status 200 and the body {}, whatever the request held.
C8_UpdateAnswersEmptyObject ==
    \A r \in Slots :
        (Done(r) /\ kind[r] = "update" /\ body[r].syntax = "json" /\ svcRet[r].err = <<>>) =>
            /\ header[r] = <<200>>
            /\ written[r] = <<"{}">>

C8_Witness ==
    \E r1, r2 \in Slots :
        /\ Done(r1) /\ kind[r1] = "update" /\ svcRet[r1].err = <<>> /\ req[r1].IsDone
        /\ Done(r2) /\ kind[r2] = "update" /\ svcRet[r2].err = <<>> /\ ~req[r2].IsDone
        /\ req[r2].Description = "write the report"
        /\ written[r1] = <<"{}">> /\ written[r2] = <<"{}">>

\* ----------------------------------------------------------------------- C9
\* Two answered requests with the same input and the same service result.
SameExchange(r1, r2) ==
    /\ Done(r1) /\ Done(r2)
    /\ kind[r1] = kind[r2]
    /\ body[r1] = body[r2]
    /\ id[r1] = id[r2]
    /\ svcRet[r1] = svcRet[r2]

C9_ResponseOfOwnExchange ==
    \A r1, r2 \in Slots :
        SameExchange(r1, r2) => header[r1] = header[r2] /\ written[r1] = written[r2]

\* C9: however the handling of concurrent requests interleaves, a request's
\* response is decided by its own input and by what the service returned for
\* it (two requests that agree on these are answered alike), and the handler's
\* service reference never changes.
C9_NoSharedState ==
    /\ []C9_ResponseOfOwnExchange
    /\ [][svc' = svc]_vars

C9_Witness ==
    \E r1, r2 \in Slots :
        /\ r1 # r2
        /\ SameExchange(r1, r2)
        /\ kind[r1] = "create"
        /\ svcRet[r1].err = NotFoundError
        /\ header[r2] = <<500>>

\* ---------------------------------------------------------------------- C10
\* C10: a request writes at most one status and invokes the service at most
\* once, and when its handler has returned it has written exactly one status.
C10_OneStatusOneCall ==
    \A r \in Slots :
        /\ Len(header[r]) <= 1
        /\ Len(calls[r]) <= 1
        /\ Done(r) => Len(header[r]) = 1

C10_Witness ==
    \E r1, r2 \in Slots :
        /\ Done(r1) /\ kind[r1] = "task" /\ svcRet[r1].err = <<>>
        /\ header[r1] = <<500>> /\ written[r1] = <<>> /\ Len(calls[r1]) = 1
        /\ Done(r2) /\ Decoding(r2) /\ body[r2] = BadJSON
        /\ Len(header[r2]) = 1 /\ calls[r2] = <<>>

====
